---- MODULE Spec2Model ----
(***************************************************************************)
(* Model of lib/traildb.js (Node.js bindings for TrailDB): the filter      *)
(* compiler TrailDBFilter, the trail and event iterators and the native    *)
(* resources (cursors, filter handles) they acquire and release.           *)
(***************************************************************************)
EXTENDS Integers, Sequences, FiniteSets, Bags, TLC

(***************************************************************************)
(* Bounds of the model.                                                    *)
(***************************************************************************)
\* longest condition list handed to TrailDBFilter under SpecCompile
MaxConds == 3
\* filter handles allocated in one behaviour of Spec and of SpecExample
MaxFilters == 1
\* event sequences (EventsIterator objects) constructed in one behaviour
MaxSeqs == 2
\* iterators obtained from the TrailsIterator object in one behaviour of
\* SpecTrails
MaxTrailIts == 3
\* next() calls that report done, per iterator of SpecTrails
MaxDones == 2

\* next() calls issued on event sequences in one behaviour of Spec
MaxCalls == 3

(***************************************************************************)
(* The store: the reference data of the usage example.  Field 0 is the     *)
(* store's first field; the example's field1 and field2 follow it.         *)
(***************************************************************************)
FieldNames == <<"time", "field1", "field2">>

numFields == Len(FieldNames)

\* field index (0-based) -> the values of its lexicon; value id 0 is the
\* empty string, value id k > 0 is Lexicon[f][k]
Lexicon == [f \in 0..(numFields - 1) |->
              CASE f = 1 -> <<"a", "b", "d">>
                [] f = 2 -> <<"c", "e">>
                [] OTHER -> << >>]

\* narrow item of (field, value id): field in bits 0-6, bit 7 clear
MakeItem(field, val) == field + 256 * val

\* the trails of the example, by 0-based trail id; each event holds one item
\* per field of the event (the empty value included)
Trails == <<
  << [timestamp |-> 123, items |-> <<MakeItem(1, 1), MakeItem(2, 0)>>],
     [timestamp |-> 124, items |-> <<MakeItem(1, 2), MakeItem(2, 1)>>] >>,
  << [timestamp |-> 125, items |-> <<MakeItem(1, 2), MakeItem(2, 2)>>],
     [timestamp |-> 126, items |-> <<MakeItem(1, 3), MakeItem(2, 2)>>] >> >>

numTrails == Len(Trails)

TrailEvents(id) == Trails[id + 1]

AllEvents == UNION {{Trails[t][k] : k \in 1..Len(Trails[t])} : t \in 1..numTrails}

Range(s) == {s[k] : k \in 1..Len(s)}

(***************************************************************************)
(* Item codec (tdb_item_is_32, tdb_item_field).                            *)
(***************************************************************************)
tdb_item_is_32(item) == (item \div 128) % 2 = 0

tdb_item_field(item) ==
  IF tdb_item_is_32(item)
  THEN item % 128
  ELSE (item % 128) + 128 * ((item \div 256) % 128)

(***************************************************************************)
(* Store lookups used by the client.                                       *)
(***************************************************************************)
\* tdb_get_field: err = 0 and the field's index when the name is in the
\* field table, err # 0 otherwise (the out-parameter keeps its initial 1)
tdb_get_field(name) ==
  IF \E f \in 0..(numFields - 1) : FieldNames[f + 1] = name
  THEN [err |-> 0, id |-> CHOOSE f \in 0..(numFields - 1) : FieldNames[f + 1] = name]
  ELSE [err |-> 1, id |-> 1]

\* tdb_get_item: the item of (field, value), 0 when the value is not in the
\* field's lexicon; the empty value has value id 0
tdb_get_item(field, val) ==
  IF val = "" THEN MakeItem(field, 0)
  ELSE IF \E k \in 1..Len(Lexicon[field]) : Lexicon[field][k] = val
       THEN MakeItem(field, CHOOSE k \in 1..Len(Lexicon[field]) : Lexicon[field][k] = val)
       ELSE 0

\* TrailDB.prototype.getItemValue: the value string of an item, '' when the
\* store returns none
getItemValue(item) ==
  LET f == tdb_item_field(item)
      v == item \div 256
  IN IF f < numFields /\ v >= 1 /\ v <= Len(Lexicon[f]) THEN Lexicon[f][v] ELSE ""

\* TrailDB.prototype.getItemKey: the field name of an item
getItemKey(item) == FieldNames[tdb_item_field(item) + 1]

(***************************************************************************)
(* Filter compiler (TrailDBFilter).  A filter is a sequence of clauses,    *)
(* each a sequence of terms [item, neg]; a new filter has one open, empty  *)
(* clause.                                                                 *)
(***************************************************************************)
EmptyFilter == << << >> >>

\* tdb_event_filter_new_clause
tdb_event_filter_new_clause(clauses) == Append(clauses, << >>)

\* mutant: a term whose item is the no-match item is not added
tdb_event_filter_add_term_skipNoMatch(clauses, item, neg) ==
  IF item = 0 THEN clauses
  ELSE [clauses EXCEPT ![Len(clauses)] = Append(@, [item |-> item, neg |-> neg])]

\* tdb_event_filter_add_term: the term joins the last (current) clause
tdb_event_filter_add_term(clauses, item, neg) ==
  [clauses EXCEPT ![Len(clauses)] = Append(@, [item |-> item, neg |-> neg])]

\* mutant: a new clause is opened for the first condition as well
NeedNewClause_first(validFilterClauses, cond) == cond.and

\* mutant: every condition after the first opens a new clause
NeedNewClause_always(validFilterClauses, cond) == validFilterClauses # 0

\* lines 637-643: a new clause is opened when a term is already in the
\* filter and the condition's `and` is set
NeedNewClause(validFilterClauses, cond) == validFilterClauses # 0 /\ cond.and

NoFail == [kind |-> "none", at |-> 0]

\* One pass of the loop body for condition i and the passes after it.
\* st = [status, clauses, ops, validFilterClauses]; fail names the store call
\* (new_clause or add_term of condition fail.at) that the store rejects.
RECURSIVE CompileFrom(_, _, _, _)
CompileFrom(conds, i, st, fail) ==
  IF i > Len(conds) THEN st
  ELSE
    LET c == conds[i]
        r == tdb_get_field(c.field)
        ops1 == Append(st.ops, [op |-> "tdb_get_field", cond |-> i])
    IN IF r.err # 0
       THEN [st EXCEPT !.status = "UnableToLocateField", !.ops = ops1]
       ELSE IF r.id = 0
       THEN [st EXCEPT !.status = "UnknownFieldName", !.ops = ops1]
       ELSE
         LET thisItem == tdb_get_item(r.id, c.val)
             ops2 == Append(ops1, [op |-> "tdb_get_item", cond |-> i])
             newClause == NeedNewClause(st.validFilterClauses, c)
             ops3 == IF newClause
                     THEN Append(ops2, [op |-> "tdb_event_filter_new_clause", cond |-> i])
                     ELSE ops2
         IN IF newClause /\ fail = [kind |-> "clause", at |-> i]
            THEN [st EXCEPT !.status = "ClauseAppendFailed", !.ops = ops3]
            ELSE
              LET clauses1 == IF newClause
                              THEN tdb_event_filter_new_clause(st.clauses)
                              ELSE st.clauses
                  neg == (c.neg = TRUE)
                  ops4 == Append(ops3, [op |-> "tdb_event_filter_add_term", cond |-> i])
              IN IF fail = [kind |-> "term", at |-> i]
                 THEN [st EXCEPT !.status = "TermAppendFailed",
                                 !.clauses = clauses1, !.ops = ops4]
                 ELSE CompileFrom(conds, i + 1,
                        [st EXCEPT !.clauses = tdb_event_filter_add_term(clauses1, thisItem, neg),
                                   !.ops = ops4,
                                   !.validFilterClauses = @ + 1],
                        fail)

\* mutant: the error of a condition is kept and thrown after the loop, the
\* conditions after it are processed
TrailDBFilter_throwAtEnd(conds, fail) ==
  LET st0 == [status |-> "ok", clauses |-> EmptyFilter, ops |-> << >>,
              validFilterClauses |-> 0]
      r1 == CompileFrom(conds, 1, st0, fail)
      k == r1.ops[Len(r1.ops)].cond
      r2 == CompileFrom(conds, k + 1, [r1 EXCEPT !.status = "ok"], NoFail)
  IN IF Len(conds) <= 0 THEN st0
     ELSE IF r1.status = "ok" THEN r1
     ELSE [r2 EXCEPT !.status = r1.status]

\* TrailDBFilter({db, filter: conds}): status "ok" when the handle is
\* returned, the thrown error otherwise
TrailDBFilter(conds, fail) ==
  LET st0 == [status |-> "ok", clauses |-> EmptyFilter, ops |-> << >>,
              validFilterClauses |-> 0]
  IN IF Len(conds) <= 0 THEN st0 ELSE CompileFrom(conds, 1, st0, fail)

(***************************************************************************)
(* Store-side filter evaluation, as the TrailDBFilter documentation and    *)
(* the usage example state it: terms of one clause are joined with OR, a   *)
(* new clause is joined with AND, and a filter without terms matches       *)
(* nothing.                                                                *)
(***************************************************************************)
TermMatches(term, event) == (term.item \in Range(event.items)) # term.neg

ClauseMatches(clause, event) == \E k \in 1..Len(clause) : TermMatches(clause[k], event)

FilterMatches(clauses, event) == \A c \in 1..Len(clauses) : ClauseMatches(clauses[c], event)

(***************************************************************************)
(* State.                                                                  *)
(***************************************************************************)
VARIABLES
  filters,   \* every tdb_event_filter_new allocation, by handle (1-based)
  seqs,      \* the EventsIterator objects constructed so far, each with
             \* the cursor it holds in this.cursor
  orphans,   \* bag of the cursors no object refers to: those allocated by
             \* trail(i) and by EventsIterator calls that threw
  trailIts,  \* the iterators obtained from the TrailsIterator object
  crashed,   \* the process was ended by a fault of the native library
  client     \* the position of the usage example's nested loops (SpecExample)

vars == <<filters, seqs, orphans, trailIts, crashed, client>>

NoFilter == 0

\* the handles a caller holds: those TrailDBFilter returned
Handles == {f \in 1..Len(filters) : filters[f].status = "ok"}

Released(f) == filters[f].frees > 0

Init ==
  /\ filters = << >>
  /\ seqs = << >>
  /\ orphans = EmptyBag
  /\ trailIts = << >>
  /\ crashed = FALSE
  /\ client = [pc |-> "idle", toMap |-> FALSE, filter |-> NoFilter, trail |-> -1]

\* a fault of the native library ends the process: its objects and the
\* native resources they hold cease to exist
Crash ==
  /\ filters' = << >>
  /\ seqs' = << >>
  /\ orphans' = EmptyBag
  /\ trailIts' = << >>
  /\ crashed' = TRUE

(***************************************************************************)
(* TrailDBFilter as an operation: the filter object it allocates stays in  *)
(* the table whether the call returns it or throws.                        *)
(***************************************************************************)
DoCompile(conds, fail) ==
  LET r == TrailDBFilter(conds, fail)
  IN /\ filters' = Append(filters,
                     [status |-> r.status, clauses |-> r.clauses, ops |-> r.ops,
                      conds |-> conds, fail |-> fail, frees |-> 0])
     /\ UNCHANGED <<seqs, orphans, trailIts, crashed>>

\* a field of the store with a value in its lexicon ("e") or not ("zz"),
\* the store's field 0, and a name that is in no field table
CondVals == {"e", "zz"}

Conds ==
  [field : {"field2"}, val : CondVals, neg : BOOLEAN, and : BOOLEAN]
  \cup [field : {"time", "nofield"}, val : {"e"}, neg : {FALSE}, and : BOOLEAN]

CondLists == UNION {[1..n -> Conds] : n \in 0..MaxConds}

Fails == {NoFail} \cup [kind : {"clause", "term"}, at : 1..MaxConds]

\* one call of TrailDBFilter on any bounded condition list, the store
\* rejecting at most one of its filter operations
CompileAny ==
  /\ Len(filters) = 0
  /\ \E conds \in CondLists, fail \in Fails : DoCompile(conds, fail)
  /\ UNCHANGED client

NextCompile == CompileAny

SpecCompile == Init /\ [][NextCompile]_vars

(***************************************************************************)
(* Cursors.  A cursor is [owner, err, trail, pos, filter, frees,           *)
(* staleReads, staleAttach]: err is the error its constructor threw, pos   *)
(* the 1-based index of the next event of its trail to examine, frees the  *)
(* number of tdb_cursor_free calls on it, staleReads the number of         *)
(* tdb_cursor_next calls issued on it after its release; staleAttach says  *)
(* that a released filter was handed to tdb_cursor_set_event_filter.       *)
(***************************************************************************)
\* tdb_cursor_new
tdb_cursor_new(owner) ==
  [owner |-> owner, err |-> "none", trail |-> -1, pos |-> 1, filter |-> NoFilter,
   frees |-> 0, staleReads |-> 0, staleAttach |-> FALSE]

\* tdb_get_trail: 0 when the trail id is one of the store's, an error otherwise
tdb_get_trail(id) == IF id >= 0 /\ id < numTrails THEN 0 ELSE 1

NullEvent == [timestamp |-> 0, items |-> << >>]

\* the first event at or after pos that the cursor's filter lets through,
\* 0 when there is none
FirstMatch(events, pos, c) ==
  LET ok == {k \in pos..Len(events) :
               c.filter = NoFilter \/ FilterMatches(filters[c.filter].clauses, events[k])}
  IN IF ok = {} THEN 0 ELSE CHOOSE k \in ok : \A j \in ok : k <= j

\* tdb_cursor_next: the outcomes [null, event, pos] of advancing cursor c.
\* Advancing a released cursor, or a cursor whose filter was released, reads
\* freed memory: the call may return null or a record of the trail.
tdb_cursor_next(c) ==
  LET events == TrailEvents(c.trail)
  IN IF c.frees > 0
     THEN {[null |-> TRUE, event |-> NullEvent, pos |-> c.pos]}
          \cup {[null |-> FALSE, event |-> events[k], pos |-> c.pos] :
                  k \in 1..Len(events)}
     ELSE IF c.filter # NoFilter /\ Released(c.filter)
     THEN {[null |-> TRUE, event |-> NullEvent, pos |-> Len(events) + 1]}
          \cup {[null |-> FALSE, event |-> events[k], pos |-> k + 1] :
                  k \in c.pos..Len(events)}
     ELSE LET k == FirstMatch(events, c.pos, c)
          IN IF k = 0
             THEN {[null |-> TRUE, event |-> NullEvent, pos |-> Len(events) + 1]}
             ELSE {[null |-> FALSE, event |-> events[k], pos |-> k + 1]}

(***************************************************************************)
(* EventsIterator: construction.                                           *)
(***************************************************************************)
\* mutant: the filter option is never attached to the cursor
HasFilterOption_never(filter) == FALSE

\* line 252: typeof this.options.filter != 'undefined'
HasFilterOption(filter) == filter # NoFilter

\* mutant: the cursor is positioned before the filter is attached
EventsIterator_positionFirst(id, filter, toMap, storeErr, crash) ==
  LET c0 == [tdb_cursor_new("events") EXCEPT
               !.trail = IF tdb_get_trail(id) = 0 THEN id ELSE -1]
      attach == HasFilterOption(filter)
      stale == attach /\ Released(filter)
      c1 == IF attach
            THEN [c0 EXCEPT !.staleAttach = stale,
                            !.filter = IF storeErr THEN NoFilter ELSE filter]
            ELSE c0
  IN /\ storeErr => attach
     /\ crash => stale
     /\ IF crash
        THEN Crash
        ELSE IF tdb_get_trail(id) # 0
        THEN /\ orphans' = orphans (+) SetToBag({[c0 EXCEPT !.err = "TrailOpenFailed"]})
             /\ UNCHANGED <<filters, seqs, trailIts, crashed>>
        ELSE IF attach /\ storeErr
        THEN /\ orphans' = orphans (+) SetToBag({[c1 EXCEPT !.err = "FilterAttachFailed"]})
             /\ UNCHANGED <<filters, seqs, trailIts, crashed>>
        ELSE /\ seqs' = Append(seqs, [trail |-> id, cursor |-> c1,
                                      filter |-> filter, toMap |-> toMap,
                                      yielded |-> << >>, calls |-> 0, dones |-> 0,
                                      afterDone |-> 0, ub |-> stale])
             /\ UNCHANGED <<filters, orphans, trailIts, crashed>>

\* new EventsIterator(trail, {toMap, filter}) for the trail object of id;
\* storeErr: the store rejects the filter; crash: the native call faults
EventsIterator(id, filter, toMap, storeErr, crash) ==
  LET c0 == tdb_cursor_new("events")
      attach == HasFilterOption(filter)
      stale == attach /\ Released(filter)
      c1 == IF attach
            THEN [c0 EXCEPT !.staleAttach = stale,
                            !.filter = IF storeErr THEN NoFilter ELSE filter]
            ELSE c0
  IN /\ storeErr => attach
     /\ crash => stale
     /\ IF crash
        THEN Crash
        ELSE IF attach /\ storeErr
        THEN /\ orphans' = orphans (+) SetToBag({[c1 EXCEPT !.err = "FilterAttachFailed"]})
             /\ UNCHANGED <<filters, seqs, trailIts, crashed>>
        ELSE IF tdb_get_trail(id) # 0
        THEN /\ orphans' = orphans (+) SetToBag({[c1 EXCEPT !.err = "TrailOpenFailed"]})
             /\ UNCHANGED <<filters, seqs, trailIts, crashed>>
        ELSE /\ seqs' = Append(seqs, [trail |-> id, cursor |-> [c1 EXCEPT !.trail = id],
                                      filter |-> filter, toMap |-> toMap,
                                      yielded |-> << >>, calls |-> 0, dones |-> 0,
                                      afterDone |-> 0, ub |-> stale])
             /\ UNCHANGED <<filters, orphans, trailIts, crashed>>

\* the cursors allocated by EventsIterator calls so far
EventCursors ==
  Len(seqs) + BagCardinality([c \in {d \in BagToSet(orphans) : d.owner = "events"}
                                |-> orphans[c]])

\* trail.events({toMap: true, filter}) on a TrailDBTrail of any id, valid or
\* not, with or without a filter handle
NewEvents ==
  /\ ~crashed
  /\ EventCursors < MaxSeqs
  /\ \E id \in 0..numTrails, filter \in {NoFilter} \cup Handles,
        storeErr \in BOOLEAN, crash \in BOOLEAN :
       EventsIterator(id, filter, TRUE, storeErr, crash)
  /\ UNCHANGED client

(***************************************************************************)
(* EventsIterator: next().                                                 *)
(***************************************************************************)
\* lines 282-307: the event value built from a record
DecodeEvent(rec, toMap) ==
  LET n == Len(rec.items)
      list == [i \in 1..n |-> getItemValue(rec.items[i])]
      keys == {getItemKey(rec.items[i]) : i \in 1..n}
      last(k) == CHOOSE i \in 1..n :
                   /\ getItemKey(rec.items[i]) = k
                   /\ \A j \in 1..n : getItemKey(rec.items[j]) = k => j <= i
  IN [timestamp |-> rec.timestamp,
      values |-> list,
      hasMap |-> toMap,
      map |-> IF toMap THEN [k \in keys |-> list[last(k)]] ELSE [k \in {} |-> ""]]

\* line 275: the branch that releases the filter and the cursor
ReleaseAtEnd(null) == null

\* An event sequence is [trail, cursor, filter, toMap, yielded, calls, dones,
\* afterDone, ub]: yielded holds the values returned with done: false, calls
\* counts next() calls, dones those that reported done, afterDone those made
\* after the first done; ub says that a native call made for the sequence
\* used a released cursor or filter.
\* next() on an iterator of event sequence s; o is the outcome of
\* tdb_cursor_next, crashAt the native call of this step that faults
\* (1 tdb_cursor_next, 2 tdb_event_filter_free, 3 tdb_cursor_free; 0 none)
EventsNextStep(s, o, crashAt) ==
  LET sq == seqs[s]
      c == sq.cursor
      f == sq.filter
      staleCursor == c.frees > 0
      staleFilter == c.filter # NoFilter /\ Released(c.filter)
      end == ReleaseAtEnd(o.null)
      freeFilter == end /\ f # NoFilter
  IN /\ crashAt = 1 => staleCursor \/ staleFilter
     /\ crashAt = 2 => freeFilter /\ Released(f)
     /\ crashAt = 3 => end /\ staleCursor
     /\ IF crashAt # 0
        THEN Crash
        ELSE /\ filters' = IF freeFilter
                           THEN [filters EXCEPT ![f] = [@ EXCEPT !.frees = @ + 1]]
                           ELSE filters
             /\ seqs' = [seqs EXCEPT ![s] =
                           [@ EXCEPT !.cursor =
                                       [@ EXCEPT !.staleReads = IF staleCursor THEN @ + 1 ELSE @,
                                                 !.pos = o.pos,
                                                 !.frees = IF end THEN @ + 1 ELSE @],
                                     !.calls = @ + 1,
                                     !.ub = @ \/ staleCursor \/ staleFilter
                                              \/ (freeFilter /\ Released(f)),
                                     !.afterDone = IF sq.dones > 0 THEN @ + 1 ELSE @,
                                     !.dones = IF o.null THEN @ + 1 ELSE @,
                                     !.yielded = IF o.null THEN @
                                                 ELSE Append(@, DecodeEvent(o.event, sq.toMap))]]
             /\ UNCHANGED <<orphans, trailIts, crashed>>

RECURSIVE SumCalls(_)
SumCalls(n) == IF n = 0 THEN 0 ELSE seqs[n].calls + SumCalls(n - 1)

\* the next() calls issued on event sequences so far
TotalCalls == SumCalls(Len(seqs))

EventsNext ==
  /\ ~crashed
  /\ TotalCalls < MaxCalls
  /\ \E s \in 1..Len(seqs) :
       /\ \E o \in tdb_cursor_next(seqs[s].cursor), crashAt \in 0..3 :
            EventsNextStep(s, o, crashAt)
  /\ UNCHANGED client

(***************************************************************************)
(* TrailsIterator and TrailDB.prototype.trail.                              *)
(***************************************************************************)
\* tdb.trail(i): the cursor it allocates and positions, and whether it throws
trail(i) ==
  [cursor |-> [tdb_cursor_new("trail") EXCEPT
                 !.trail = IF tdb_get_trail(i) = 0 THEN i ELSE -1,
                 !.err = IF tdb_get_trail(i) = 0 THEN "none" ELSE "TrailFailed"],
   err |-> tdb_get_trail(i) # 0]

\* tdb.trails()[Symbol.iterator](): a new iterator at index 0 with the
\* store's trail count captured
TrailsGetIterator ==
  /\ trailIts' = Append(trailIts, [i |-> 0, numTrails |-> numTrails,
                                   yielded |-> << >>, dones |-> 0])
  /\ UNCHANGED <<filters, seqs, orphans, crashed>>

\* mutant: without the test of line 222, done is decided by line 227 alone
TrailsNextStep_noBoundCheck(t) ==
  LET it == trailIts[t]
      r == trail(it.i)
  IN /\ orphans' = orphans (+) SetToBag({r.cursor})
     /\ trailIts' = IF r.err
                    THEN trailIts
                    ELSE [trailIts EXCEPT ![t] =
                            [@ EXCEPT !.yielded = IF it.i > it.numTrails THEN @
                                                  ELSE Append(@, it.i),
                                      !.dones = IF it.i > it.numTrails THEN @ + 1 ELSE @,
                                      !.i = @ + 1]]
     /\ UNCHANGED <<filters, seqs, crashed>>

\* mutant: the iterator reports done one trail early
TrailsNextStep_lastSkipped(t) ==
  LET it == trailIts[t]
  IN IF it.i + 1 >= it.numTrails
     THEN /\ trailIts' = [trailIts EXCEPT ![t] = [@ EXCEPT !.dones = @ + 1]]
          /\ UNCHANGED <<filters, seqs, orphans, crashed>>
     ELSE /\ orphans' = orphans (+) SetToBag({trail(it.i).cursor})
          /\ trailIts' = [trailIts EXCEPT ![t] =
                            [@ EXCEPT !.yielded = Append(@, it.i), !.i = @ + 1]]
          /\ UNCHANGED <<filters, seqs, crashed>>

\* next() on entity iterator t
TrailsNextStep(t) ==
  LET it == trailIts[t]
  IN IF it.i >= it.numTrails
     THEN /\ trailIts' = [trailIts EXCEPT ![t] = [@ EXCEPT !.dones = @ + 1]]
          /\ UNCHANGED <<filters, seqs, orphans, crashed>>
     ELSE LET r == trail(it.i)
          IN /\ orphans' = orphans (+) SetToBag({r.cursor})
             /\ trailIts' = IF r.err
                            THEN trailIts
                            ELSE [trailIts EXCEPT ![t] =
                                    [@ EXCEPT !.yielded = IF it.i > it.numTrails THEN @
                                                          ELSE Append(@, it.i),
                                              !.dones = IF it.i > it.numTrails THEN @ + 1 ELSE @,
                                              !.i = @ + 1]]
             /\ UNCHANGED <<filters, seqs, crashed>>

(***************************************************************************)
(* The client: filters are compiled from the usage example's condition     *)
(* list, its same-clause variant and the empty list.                       *)
(***************************************************************************)
ExampleConds ==
  << [field |-> "field1", val |-> "b", neg |-> FALSE, and |-> FALSE],
     [field |-> "field2", val |-> "e", neg |-> FALSE, and |-> TRUE] >>

SameClauseConds ==
  << [field |-> "field1", val |-> "b", neg |-> FALSE, and |-> FALSE],
     [field |-> "field2", val |-> "e", neg |-> FALSE, and |-> FALSE] >>

FilterInputs == {ExampleConds, SameClauseConds, << >>}

Compile ==
  /\ ~crashed
  /\ client.pc = "idle"
  /\ Len(filters) < MaxFilters
  /\ \E conds \in FilterInputs : DoCompile(conds, NoFail)
  /\ UNCHANGED client

Next ==
  \/ Compile
  \/ NewEvents
  \/ EventsNext

Spec == Init /\ [][Next]_vars

(***************************************************************************)
(* The usage example as a client: an optional TrailDBFilter call, then     *)
(*   for (trail of tdb.trails())                                           *)
(*     for (event of trail.events({toMap, filter})) ...                    *)
(* A for-of loop obtains one iterator and calls next() until it reports    *)
(* done; an exception ends both loops.                                     *)
(***************************************************************************)
\* the outer loop starts: the options of the inner loops are fixed here
ExStart ==
  /\ ~crashed
  /\ client.pc = "idle"
  /\ \E toMap \in BOOLEAN, filter \in {NoFilter} \cup Handles :
       client' = [pc |-> "trails", toMap |-> toMap, filter |-> filter, trail |-> -1]
  /\ TrailsGetIterator

\* the outer loop asks for the next trail
ExTrailsNext ==
  /\ ~crashed
  /\ client.pc = "trails"
  /\ TrailsNextStep(Len(trailIts))
  /\ client' = IF trailIts'[Len(trailIts)].dones > 0
                THEN [client EXCEPT !.pc = "end"]
                ELSE [client EXCEPT !.pc = "events",
                                    !.trail = trailIts[Len(trailIts)].i]

\* the inner loop starts on the trail just yielded
ExNewEvents ==
  /\ ~crashed
  /\ client.pc = "events"
  /\ \E storeErr \in BOOLEAN, crash \in BOOLEAN :
       EventsIterator(client.trail, client.filter, client.toMap, storeErr, crash)
  /\ client' = IF crashed' THEN [client EXCEPT !.pc = "crashed"]
                ELSE IF Len(seqs') > Len(seqs) THEN [client EXCEPT !.pc = "iter"]
                ELSE [client EXCEPT !.pc = "thrown"]

\* the inner loop asks for the next event
ExEventsNext ==
  /\ ~crashed
  /\ client.pc = "iter"
  /\ \E o \in tdb_cursor_next(seqs[Len(seqs)].cursor), crashAt \in 0..3 :
       EventsNextStep(Len(seqs), o, crashAt)
  /\ client' = IF crashed' THEN [client EXCEPT !.pc = "crashed"]
                ELSE IF seqs'[Len(seqs)].dones > 0 THEN [client EXCEPT !.pc = "trails"]
                ELSE client

NextExample ==
  \/ Compile
  \/ ExStart
  \/ ExTrailsNext
  \/ ExNewEvents
  \/ ExEventsNext

SpecExample == Init /\ [][NextExample]_vars

(***************************************************************************)
(* The entity iterators on their own: any number of iterators obtained     *)
(* from tdb.trails(), each advanced any number of times, also after it has *)
(* reported done.                                                          *)
(***************************************************************************)
TrailsIter ==
  /\ Len(trailIts) < MaxTrailIts
  /\ TrailsGetIterator
  /\ UNCHANGED client

TrailsNext ==
  /\ \E t \in 1..Len(trailIts) :
       /\ trailIts[t].dones < MaxDones
       /\ TrailsNextStep(t)
  /\ UNCHANGED client

NextTrails ==
  \/ TrailsIter
  \/ TrailsNext

SpecTrails == Init /\ [][NextTrails]_vars

(***************************************************************************)
(* Properties.                                                             *)
(***************************************************************************)

SeqIds == 1..Len(seqs)

\* every cursor allocated so far
AllCursors == {seqs[s].cursor : s \in SeqIds} \cup BagToSet(orphans)

\* C1: the cursor of an event sequence is released exactly once, at the
\* first end-of-sequence, and never again, whatever next() calls follow.
C1_CursorReleasedOnce ==
  \A s \in SeqIds :
    seqs[s].cursor.frees = (IF seqs[s].dones > 0 THEN 1 ELSE 0)

\* C2: tdb_cursor_next is never issued on a cursor that has been released.
C2_NoReadAfterRelease ==
  \A s \in SeqIds : seqs[s].cursor.staleReads = 0

\* C3: a filter handle is not released while a cursor it is attached to is
\* unreleased, and it is not attached to a cursor after its release.
C3_FilterOutlivesCursors ==
  \A c \in AllCursors :
    /\ ~c.staleAttach
    /\ (c.filter # NoFilter /\ c.frees = 0) => ~Released(c.filter)

\* C4: tdb_event_filter_free is issued at most once for a filter handle.
C4_FilterReleasedOnce ==
  \A f \in 1..Len(filters) : filters[f].frees <= 1

\* C5: once the example's loops have ended (every trail and every event
\* iterated to exhaustion, or a constructor has thrown), every cursor that
\* was allocated has been released exactly once.
C5_NoCursorLeak ==
  client.pc \in {"end", "thrown"} =>
    /\ \A c \in BagToSet(orphans) : c.frees = 1
    /\ \A s \in SeqIds : seqs[s].cursor.frees = 1

FilterIds == 1..Len(filters)

\* the item a condition resolves to
ItemOf(cond) == tdb_get_item(tdb_get_field(cond.field).id, cond.val)

\* the term a condition contributes
TermOf(cond) == [item |-> ItemOf(cond), neg |-> cond.neg]

\* the number of conditions j with 1 < j <= i (1-based) whose `and` is set
AndsUpTo(conds, i) == Cardinality({j \in 2..i : conds[j].and})

RECURSIVE Flatten(_)
Flatten(clauses) ==
  IF clauses = << >> THEN << >> ELSE Head(clauses) \o Flatten(Tail(clauses))

FlipFirstAnd(conds) == [conds EXCEPT ![1] = [@ EXCEPT !.and = ~@]]

\* the condition's field passes the field resolution of lines 601-613
Resolves(cond) ==
  tdb_get_field(cond.field).err = 0 /\ tdb_get_field(cond.field).id # 0

\* C6: for a non-empty condition list whose fields all resolve (the store
\* accepting every filter operation), TrailDBFilter returns a filter that
\* has 1 + (number of non-first conditions with and = true) clauses; the
\* term of condition i is in the clause numbered by the and-conditions among
\* 2..i; the terms are in input order, one per condition, negated iff neg is
\* true; and the `and` of the first condition does not change the result.
C6_ClauseStructure ==
  \A f \in FilterIds :
    LET conds == filters[f].conds
        cl == filters[f].clauses
        n == Len(conds)
    IN (/\ n > 0
        /\ \A i \in 1..n : Resolves(conds[i])
        /\ filters[f].fail = NoFail) =>
         /\ filters[f].status = "ok"
         /\ Len(cl) = 1 + AndsUpTo(conds, n)
         /\ Flatten(cl) = [i \in 1..n |-> TermOf(conds[i])]
         /\ \A c \in 1..Len(cl) :
              Len(cl[c]) = Cardinality({i \in 1..n : AndsUpTo(conds, i) = c - 1})
         /\ TrailDBFilter(FlipFirstAnd(conds), filters[f].fail).clauses = cl

\* three conditions, the first and the third with and = true, the second
\* negated: two clauses, of one and of two terms
C6_Witness ==
  \E f \in FilterIds :
    LET conds == filters[f].conds
    IN /\ filters[f].status = "ok"
       /\ Len(conds) = 3
       /\ conds[1].and /\ ~conds[2].and /\ conds[3].and
       /\ conds[2].neg
       /\ Len(filters[f].clauses) = 2
       /\ Len(filters[f].clauses[1]) = 2
       /\ filters[f].clauses[1][2].neg

\* the events of a trail that a predicate on records selects, as the values
\* an event sequence yields for them
Selected(id, toMap, P(_)) ==
  LET evs == SelectSeq(TrailEvents(id), P)
  IN [k \in 1..Len(evs) |-> DecodeEvent(evs[k], toMap)]

IsPrefix(a, b) == Len(a) <= Len(b) /\ \A k \in 1..Len(a) : a[k] = b[k]

\* what event sequence s has yielded agrees with the selection P of its
\* trail's events: a prefix of it, and all of it once s has reported done
YieldsExactly(s, P(_)) ==
  LET want == Selected(seqs[s].trail, seqs[s].toMap, P)
  IN /\ IsPrefix(seqs[s].yielded, want)
     /\ seqs[s].dones > 0 => seqs[s].yielded = want

HasItem(rec, cond) == ItemOf(cond) \in Range(rec.items)

HasBoth(rec) == HasItem(rec, ExampleConds[1]) /\ HasItem(rec, ExampleConds[2])

HasEither(rec) == HasItem(rec, ExampleConds[1]) \/ HasItem(rec, ExampleConds[2])

\* C7: the example's filter (field1 = b, then field2 = e with and = true),
\* compiled once and attached to the event sequences of every trail, yields
\* exactly the events holding both items: only the event of the second
\* trail at timestamp 125.
C7_ExampleFilterYieldsBoth ==
  (/\ client.pc = "end"
   /\ client.filter # NoFilter
   /\ filters[client.filter].conds = ExampleConds) =>
    /\ Len(seqs) = numTrails
    /\ \A s \in SeqIds : seqs[s].yielded = Selected(seqs[s].trail, seqs[s].toMap, HasBoth)
    /\ \E s \in SeqIds : Len(seqs[s].yielded) = 1 /\ seqs[s].yielded[1].timestamp = 125

\* the event sequences no native call of which used released memory
Clean(s) == ~seqs[s].ub

\* With a handle that no other sequence has released, the example's filter
\* yields exactly the events holding both items.
ExampleFilterOwnHandle ==
  \A s \in SeqIds :
    (~seqs[s].ub /\ seqs[s].filter # NoFilter
       /\ filters[seqs[s].filter].conds = ExampleConds) =>
      YieldsExactly(s, HasBoth)

UsesConds(s, conds) ==
  seqs[s].filter # NoFilter /\ filters[seqs[s].filter].conds = conds

\* C8 as stated: a filter of two conditions, the second with and = false,
\* yields no event that holds only one of the two items.
C8_SameClauseIsAnd ==
  \A s \in SeqIds :
    (Clean(s) /\ UsesConds(s, SameClauseConds)) =>
      \A k \in 1..Len(seqs[s].yielded) :
        \A rec \in Range(TrailEvents(seqs[s].trail)) :
          seqs[s].yielded[k] = DecodeEvent(rec, seqs[s].toMap) => HasBoth(rec)

\* C8 amended: a filter of two conditions, the second with and = false, has
\* both terms in one clause and joins them with OR: the sequence yields
\* exactly the events of its trail that hold at least one of the two items.
C8_SameClauseIsOr ==
  \A s \in SeqIds :
    (Clean(s) /\ UsesConds(s, SameClauseConds)) =>
      /\ Len(filters[seqs[s].filter].clauses) = 1
      /\ Len(filters[seqs[s].filter].clauses[1]) = 2
      /\ YieldsExactly(s, HasEither)

\* a sequence over the first trail with the same-clause filter has ended
\* after yielding the event at 124, which holds b but not e
C8_Witness ==
  \E s \in SeqIds :
    /\ Clean(s) /\ UsesConds(s, SameClauseConds)
    /\ seqs[s].dones > 0
    /\ Len(seqs[s].yielded) = 1
    /\ seqs[s].yielded[1].timestamp = 124
    /\ ~HasBoth(TrailEvents(seqs[s].trail)[2])

NoEvent(rec) == FALSE

\* C9: compiling the empty condition list returns a filter with no term and
\* no added clause and performs no lookup; a sequence it is attached to
\* yields no event.
C9_EmptyFilterMatchesNothing ==
  /\ \A f \in FilterIds :
       filters[f].conds = << >> =>
         /\ filters[f].status = "ok"
         /\ filters[f].clauses = << << >> >>
         /\ filters[f].ops = << >>
  /\ \A s \in SeqIds :
       (Clean(s) /\ UsesConds(s, << >>)) => YieldsExactly(s, NoEvent)

\* a sequence over the second trail (two events) with the empty filter has
\* been advanced and has reported done without yielding
C9_Witness ==
  \E s \in SeqIds :
    /\ Clean(s) /\ UsesConds(s, << >>)
    /\ seqs[s].trail = 1
    /\ seqs[s].calls = 1 /\ seqs[s].dones = 1
    /\ seqs[s].yielded = << >>

IsUnknownField(status) == status \in {"UnableToLocateField", "UnknownFieldName"}

\* C10: with the store accepting every filter operation, TrailDBFilter
\* raises UnknownField exactly when some condition names a field that is
\* not in the field table.
C10_UnknownFieldIffAbsent ==
  \A f \in FilterIds :
    filters[f].fail = NoFail =>
      (IsUnknownField(filters[f].status)
         <=> \E i \in 1..Len(filters[f].conds) :
               filters[f].conds[i].field \notin Range(FieldNames))

\* C11: when TrailDBFilter fails with UnknownField, the filter object it
\* allocated has been released by the time the error reaches the caller.
C11_UnknownFieldReleasesFilter ==
  \A f \in FilterIds :
    IsUnknownField(filters[f].status) => Released(f)

\* lines 620-622: the item tdb_get_item returns when the value is not in
\* the field's lexicon
NoMatchItem == 0

\* the condition's value is the empty value or in the lexicon of its field
InLexicon(cond) ==
  cond.val = "" \/ cond.val \in Range(Lexicon[tdb_get_field(cond.field).id])

AnyEvent(rec) == TRUE

\* C13: the example's nested loops without a filter yield every stored
\* event exactly once: the k-th event sequence is that of trail k - 1, it
\* yields the events of that trail in the trail's (timestamp) order, none
\* skipped, repeated or taken from another trail, and when the loops have
\* ended there is one exhausted sequence per trail.
C13_UnfilteredYieldsAll ==
  (client.pc # "idle" /\ client.filter = NoFilter) =>
    /\ \A s \in SeqIds :
         /\ seqs[s].trail = s - 1
         /\ seqs[s].toMap = client.toMap
         /\ YieldsExactly(s, AnyEvent)
    /\ client.pc \notin {"thrown", "crashed"}
    /\ client.pc = "end" =>
         /\ Len(seqs) = numTrails
         /\ \A s \in SeqIds :
              /\ seqs[s].dones = 1
              /\ Len(seqs[s].yielded) = Len(TrailEvents(s - 1))
              /\ \A k \in 1..Len(seqs[s].yielded) :
                   seqs[s].yielded[k].timestamp = TrailEvents(s - 1)[k].timestamp

\* the loops have ended without a filter, in map mode: the four events of
\* the example were yielded, 123 and 124 for the first trail, 125 and 126
\* for the second
C13_Witness ==
  /\ client.pc = "end" /\ client.filter = NoFilter /\ client.toMap
  /\ Len(seqs) = 2
  /\ [k \in 1..2 |-> seqs[1].yielded[k].timestamp] = <<123, 124>>
  /\ [k \in 1..2 |-> seqs[2].yielded[k].timestamp] = <<125, 126>>
  /\ seqs[2].yielded[2].map = [field1 |-> "d", field2 |-> "e"]

TrailItIds == 1..Len(trailIts)

\* the trail ids of the store, in increasing order
AllTrailIds == [k \in 1..numTrails |-> k - 1]

RECURSIVE SumYielded(_)
SumYielded(n) == IF n = 0 THEN 0 ELSE Len(trailIts[n].yielded) + SumYielded(n - 1)

\* what every entity iterator has yielded is 0, 1, ... in increasing order,
\* all of 0..numTrails-1 once it has reported done
TrailsInOrder ==
  \A t \in TrailItIds :
    /\ IsPrefix(trailIts[t].yielded, AllTrailIds)
    /\ trailIts[t].dones > 0 => trailIts[t].yielded = AllTrailIds

\* every index handed to the store by tdb.trail is one of its trails, and
\* there is one such call per trail yielded
TrailsIndexInStore ==
  /\ \A c \in BagToSet(orphans) : c.err = "none" /\ c.trail \in 0..(numTrails - 1)
  /\ BagCardinality(orphans) = SumYielded(Len(trailIts))

\* a next() call on an iterator that has reported done reports done again:
\* it yields nothing and hands nothing to the store
TrailsDoneStays ==
  \A t \in TrailItIds :
    (trailIts[t].dones > 0 /\ trailIts'[t] # trailIts[t]) =>
      /\ trailIts'[t] = [trailIts[t] EXCEPT !.dones = @ + 1]
      /\ orphans' = orphans

\* C14: an entity iterator over the store's N trails yields exactly the
\* indices 0, 1, ..., N-1 in increasing order and then reports done; every
\* later next() call reports done and yields nothing; no index >= N is
\* handed to the store.
C14_TrailsInOrderThenDone ==
  /\ [](TrailsInOrder /\ TrailsIndexInStore)
  /\ [][TrailsDoneStays]_vars

\* an iterator has yielded 0 and 1 and has reported done twice, while
\* another one is still at its first trail
C14_Witness ==
  \E t, u \in TrailItIds :
    /\ trailIts[t].yielded = AllTrailIds /\ trailIts[t].dones = 2
    /\ trailIts[u].yielded = <<0>> /\ trailIts[u].dones = 0

(***************************************************************************)
(* Event decoding on stores whose values are not all ASCII.  The store     *)
(* keeps a value as its UTF-8 bytes; the values of a field's lexicon lie   *)
(* back to back in memory, without terminators.  A string of the model is  *)
(* a string of characters; "E" stands for a character of two bytes, such   *)
(* as an accented letter.                                                  *)
(***************************************************************************)
TwoByteChars == {"E"}

Utf8Bytes(ch) == IF ch \in TwoByteChars THEN 2 ELSE 1

\* the number of bytes of the UTF-8 encoding of s
RECURSIVE Utf8Length(_)
Utf8Length(s) ==
  IF s = "" THEN 0 ELSE Utf8Bytes(SubSeq(s, 1, 1)) + Utf8Length(SubSeq(s, 2, Len(s)))

RECURSIVE Concat(_)
Concat(strings) ==
  IF strings = << >> THEN "" ELSE Head(strings) \o Concat(Tail(strings))

\* the lexicons of the stores decoded: the example's, and the example's
\* with the value "a" of field1 replaced by a two-byte character
Lexicons == {Lexicon, [Lexicon EXCEPT ![1] = <<"E", "b", "d">>]}

\* the characters that follow the last value of a lexicon in memory, up to
\* the first zero byte
Afters == {"", "~"}

\* tdb_get_item_value as the binding of lines 93-97 returns it: null for a
\* NULL pointer, otherwise the characters decoded from the pointer up to
\* the first zero byte; length is the out-parameter, the value's byte count
tdb_get_item_value(lexicon, after, item) ==
  LET f == tdb_item_field(item)
      v == item \div 256
  IN IF f >= numFields \/ v > Len(lexicon[f])
     THEN [null |-> TRUE, chars |-> "", length |-> 0]
     ELSE IF v = 0
     THEN [null |-> FALSE, chars |-> "", length |-> 0]
     ELSE [null |-> FALSE,
           chars |-> Concat(SubSeq(lexicon[f], v, Len(lexicon[f]))) \o after,
           length |-> Utf8Length(lexicon[f][v])]

\* String.prototype.slice(0, n)
Slice0(s, n) == SubSeq(s, 1, IF n < Len(s) THEN n ELSE Len(s))

\* TrailDB.prototype.getItemValue on a store with this lexicon
getItemValueIn(lexicon, after, item) ==
  LET value == tdb_get_item_value(lexicon, after, item)
  IN IF value.null \/ value.chars = "" THEN "" ELSE Slice0(value.chars, value.length)

\* lines 282-307 on a store with this lexicon
DecodeEventIn(lexicon, after, rec, toMap) ==
  LET n == Len(rec.items)
      list == [i \in 1..n |-> getItemValueIn(lexicon, after, rec.items[i])]
      keys == {getItemKey(rec.items[i]) : i \in 1..n}
      last(k) == CHOOSE i \in 1..n :
                   /\ getItemKey(rec.items[i]) = k
                   /\ \A j \in 1..n : getItemKey(rec.items[j]) = k => j <= i
  IN [timestamp |-> rec.timestamp,
      values |-> list,
      hasMap |-> toMap,
      map |-> IF toMap THEN [k \in keys |-> list[last(k)]] ELSE [k \in {} |-> ""]]

\* the records a cursor can return on a store with this lexicon: one item
\* per field after field 0, of any value id of the field, 0 (no value) included
RecordsOf(lexicon) ==
  {[timestamp |-> 123, items |-> <<MakeItem(1, v1), MakeItem(2, v2)>>] :
     v1 \in 0..Len(lexicon[1]), v2 \in 0..Len(lexicon[2])}

\* the state before next() decodes a record the cursor returned
InitDecode ==
  /\ filters = << >>
  /\ seqs = << >>
  /\ orphans = EmptyBag
  /\ trailIts = << >>
  /\ crashed = FALSE
  /\ \E lexicon \in Lexicons, after \in Afters, toMap \in BOOLEAN :
       \E rec \in RecordsOf(lexicon) :
         client = [pc |-> "decode", lexicon |-> lexicon, after |-> after,
                   rec |-> rec, toMap |-> toMap]

\* lines 282-309: the event value is built and returned
Decode ==
  /\ client.pc = "decode"
  /\ client' = [pc |-> "decoded", lexicon |-> client.lexicon, after |-> client.after,
                rec |-> client.rec, toMap |-> client.toMap,
                value |-> DecodeEventIn(client.lexicon, client.after,
                                        client.rec, client.toMap)]
  /\ UNCHANGED <<filters, seqs, orphans, trailIts, crashed>>

NextDecode == Decode

SpecDecode == InitDecode /\ [][NextDecode]_vars

\* the value the store holds for an item, "" when it holds none
StoreValue(lexicon, item) ==
  LET f == tdb_item_field(item)
      v == item \div 256
  IN IF f < numFields /\ v >= 1 /\ v <= Len(lexicon[f]) THEN lexicon[f][v] ELSE ""

\* C15: the event built from a record carries the record's timestamp and
\* one value per item, in record order, each the store's value for the
\* item ("" when the store has none); in map mode its map holds the field
\* name of every item with that value, and without map mode it has no map.
C15_DecodedEventMatchesRecord ==
  client.pc = "decoded" =>
    LET rec == client.rec
        ev == client.value
        n == Len(rec.items)
    IN /\ ev.timestamp = rec.timestamp
       /\ Len(ev.values) = n
       /\ \A i \in 1..n : ev.values[i] = StoreValue(client.lexicon, rec.items[i])
       /\ ev.hasMap = client.toMap
       /\ client.toMap =>
            /\ DOMAIN ev.map = {getItemKey(rec.items[i]) : i \in 1..n}
            /\ \A i \in 1..n :
                 ev.map[getItemKey(rec.items[i])] = StoreValue(client.lexicon, rec.items[i])

\* on the example's store the decoding is that of DecodeEvent
DecodeAgreesOnExample ==
  (client.pc = "decoded" /\ client.lexicon = Lexicon) =>
    client.value = DecodeEvent(client.rec, client.toMap)

\* on values of one-byte characters the claim of C15 holds
DecodeRightOnAscii ==
  (client.pc = "decoded" /\ client.lexicon = Lexicon) => C15_DecodedEventMatchesRecord

(***************************************************************************)
(* UUID conversion (uuidRaw, uuidHex).  A buffer is a sequence of bytes    *)
(* 0..255, a string a string of characters.                                *)
(***************************************************************************)
\* ref.reinterpret(uuid, 16): the length of a raw UUID
UuidBytes == 16

HexDigits == "0123456789abcdef"

UpperHexDigits == "0123456789ABCDEF"

CharAt(s, k) == SubSeq(s, k, k)

IsLowerHex(ch) == \E d \in 1..16 : CharAt(HexDigits, d) = ch

IsHex(ch) == IsLowerHex(ch) \/ \E d \in 1..16 : CharAt(UpperHexDigits, d) = ch

\* the value of a hexadecimal digit of either case
DigitValue(ch) ==
  IF IsLowerHex(ch)
  THEN (CHOOSE d \in 1..16 : CharAt(HexDigits, d) = ch) - 1
  ELSE (CHOOSE d \in 1..16 : CharAt(UpperHexDigits, d) = ch) - 1

\* Buffer.prototype.toString('hex'): two lowercase digits per byte
RECURSIVE BufferToHex(_)
BufferToHex(buf) ==
  IF buf = << >> THEN ""
  ELSE CharAt(HexDigits, (Head(buf) \div 16) + 1)
       \o CharAt(HexDigits, (Head(buf) % 16) + 1)
       \o BufferToHex(Tail(buf))

\* the bytes of the pairs of hexadecimal digits at the start of s, up to the
\* first pair that is not one
RECURSIVE HexPairs(_)
HexPairs(s) ==
  IF Len(s) < 2 \/ ~IsHex(CharAt(s, 1)) \/ ~IsHex(CharAt(s, 2)) THEN << >>
  ELSE <<16 * DigitValue(CharAt(s, 1)) + DigitValue(CharAt(s, 2))>>
       \o HexPairs(SubSeq(s, 3, Len(s)))

\* new Buffer(s, 'hex'): the outcomes [err, bytes].  A string of an even
\* number of hexadecimal digits gives its bytes; any other string throws a
\* TypeError or gives the bytes of its leading pairs, by the runtime's version.
BufferFromHex(s) ==
  IF Len(s) % 2 = 0 /\ 2 * Len(HexPairs(s)) = Len(s)
  THEN {[err |-> "none", bytes |-> HexPairs(s)]}
  ELSE {[err |-> "TypeError", bytes |-> << >>],
        [err |-> "none", bytes |-> HexPairs(s)]}

\* line 41: the characters of UUID_REGEX, "h" for [0-9a-f]
UuidPattern == "hhhhhhhh-hhhh-hhhh-hhhh-hhhhhhhhhhhh"

\* the pattern matches s at offset k (1-based)
MatchesAt(s, k) ==
  /\ k + Len(UuidPattern) - 1 <= Len(s)
  /\ \A j \in 1..Len(UuidPattern) :
       IF CharAt(UuidPattern, j) = "h"
       THEN IsLowerHex(CharAt(s, k + j - 1))
       ELSE CharAt(s, k + j - 1) = "-"

\* UUID_REGEX.test(s): the pattern is not anchored
UUID_REGEX_test(s) == \E k \in 1..Len(s) : MatchesAt(s, k)

\* uuid.replace(/-/g, '')
RECURSIVE RemoveHyphens(_)
RemoveHyphens(s) ==
  IF s = "" THEN ""
  ELSE (IF CharAt(s, 1) = "-" THEN "" ELSE CharAt(s, 1))
       \o RemoveHyphens(SubSeq(s, 2, Len(s)))

\* uuidRaw: the outcomes [err, bytes] of the call
uuidRaw(uuid) ==
  IF ~UUID_REGEX_test(uuid)
  THEN {[err |-> "InvalidUuid", bytes |-> << >>]}
  ELSE BufferFromHex(RemoveHyphens(uuid))

\* String.prototype.slice(a, b), 0-based, b exclusive
Slice(s, a, b) == SubSeq(s, a + 1, IF b < Len(s) THEN b ELSE Len(s))

\* mutant: the last two groups are cut at the wrong place
uuidHex_misgrouped(uuid) ==
  LET hex == BufferToHex(SubSeq(uuid, 1, UuidBytes))
  IN Slice(hex, 0, 8) \o "-" \o Slice(hex, 8, 12) \o "-" \o Slice(hex, 12, 16)
     \o "-" \o Slice(hex, 16, 28) \o "-" \o Slice(hex, 28, 32)

\* uuidHex
uuidHex(uuid) ==
  LET hex == BufferToHex(SubSeq(uuid, 1, UuidBytes))
  IN Slice(hex, 0, 8) \o "-" \o Slice(hex, 8, 12) \o "-" \o Slice(hex, 12, 16)
     \o "-" \o Slice(hex, 16, 20) \o "-" \o Slice(hex, 20, 32)

\* the UUIDs of the usage example (lines 687-688)
User1 == "771799eb-6a0d-4555-9917-0a5d449b35ab"

User2 == "8ff9b509-84a6-4888-8215-e66d7aefd1bc"

\* the buffers formatted: every byte value at every position
UuidBuffers ==
  {[k \in 1..UuidBytes |-> IF k = p THEN v ELSE 0] : p \in 1..UuidBytes, v \in 0..255}

ReplaceAt(s, p, ch) == SubSeq(s, 1, p - 1) \o ch \o SubSeq(s, p + 1, Len(s))

\* canonical UUID strings: those of the example, the extremes, and the
\* first of the example with every digit at every digit position
CanonicalUuids ==
  {User1, User2,
   "00000000-0000-0000-0000-000000000000",
   "ffffffff-ffff-ffff-ffff-ffffffffffff",
   "01234567-89ab-cdef-0123-456789abcdef"}
  \cup {ReplaceAt(User1, p, CharAt(HexDigits, d)) :
          p \in {q \in 1..Len(UuidPattern) : CharAt(UuidPattern, q) = "h"}, d \in 1..16}

\* strings that hold a canonical UUID with characters before or after it
DecoratedUuids ==
  {pre \o c \o suf : c \in {User1, User2},
                     pre \in {"", "x", "ab", "-", "{"},
                     suf \in {"", "ab", "a", "z", "-", "}"}}

\* strings that hold no canonical UUID
NonUuids ==
  {"", "abc",
   "771799EB-6A0D-4555-9917-0A5D449B35AB",
   "771799eb6a0d455599170a5d449b35ab",
   "771799eb-6a0d-4555-9917-0a5d449b35a",
   "771799eg-6a0d-4555-9917-0a5d449b35ab",
   "771799eb-6a0d-4555-9917_0a5d449b35ab"}

UuidStrings == CanonicalUuids \cup DecoratedUuids \cup NonUuids

\* a caller about to format a buffer or to parse a string
InitUuid ==
  /\ filters = << >>
  /\ seqs = << >>
  /\ orphans = EmptyBag
  /\ trailIts = << >>
  /\ crashed = FALSE
  /\ \/ \E b \in UuidBuffers : client = [pc |-> "start", fn |-> "uuidHex", arg |-> b]
     \/ \E s \in UuidStrings : client = [pc |-> "start", fn |-> "uuidRaw", arg |-> s]

\* uuidHex(arg)
UuidHexCall ==
  /\ client.pc = "start" /\ client.fn = "uuidHex"
  /\ client' = [pc |-> "returned", fn |-> "uuidHex", arg |-> client.arg,
                out |-> uuidHex(client.arg)]
  /\ UNCHANGED <<filters, seqs, orphans, trailIts, crashed>>

\* uuidRaw(uuidHex(arg))
UuidRawBack ==
  /\ client.pc = "returned" /\ client.fn = "uuidHex"
  /\ \E o \in uuidRaw(client.out) :
       client' = [pc |-> "done", fn |-> "uuidHex", arg |-> client.arg,
                  out |-> client.out, back |-> o]
  /\ UNCHANGED <<filters, seqs, orphans, trailIts, crashed>>

\* uuidRaw(arg)
UuidRawCall ==
  /\ client.pc = "start" /\ client.fn = "uuidRaw"
  /\ \E o \in uuidRaw(client.arg) :
       client' = [pc |-> "returned", fn |-> "uuidRaw", arg |-> client.arg, out |-> o]
  /\ UNCHANGED <<filters, seqs, orphans, trailIts, crashed>>

\* uuidHex(uuidRaw(arg)), when uuidRaw returned a buffer of 16 bytes or more
UuidHexBack ==
  /\ client.pc = "returned" /\ client.fn = "uuidRaw"
  /\ client.out.err = "none" /\ Len(client.out.bytes) >= UuidBytes
  /\ client' = [pc |-> "done", fn |-> "uuidRaw", arg |-> client.arg,
                out |-> client.out, back |-> uuidHex(client.out.bytes)]
  /\ UNCHANGED <<filters, seqs, orphans, trailIts, crashed>>

NextUuid ==
  \/ UuidHexCall
  \/ UuidRawBack
  \/ UuidRawCall
  \/ UuidHexBack

SpecUuid == InitUuid /\ [][NextUuid]_vars

\* lowercase hexadecimal digits grouped 8-4-4-4-12 with hyphens
IsCanonicalUuid(s) == Len(s) = Len(UuidPattern) /\ MatchesAt(s, 1)

ContainsCanonicalUuid(s) ==
  \E a \in 1..(Len(s) - Len(UuidPattern) + 1) :
    IsCanonicalUuid(SubSeq(s, a, a + Len(UuidPattern) - 1))

IsBuffer16(b) == Len(b) = UuidBytes /\ \A k \in 1..Len(b) : b[k] \in 0..255

\* C16: uuidRaw(uuidHex(b)) = b for every buffer b of 16 bytes; every
\* canonical UUID string s is parsed to 16 bytes and uuidHex(uuidRaw(s)) = s.
C16_UuidRoundTrip ==
  /\ (client.fn = "uuidHex" /\ client.pc \in {"returned", "done"}) =>
       IsCanonicalUuid(client.out)
  /\ (client.fn = "uuidHex" /\ client.pc = "done") =>
       client.back = [err |-> "none", bytes |-> client.arg]
  /\ (client.fn = "uuidRaw" /\ IsCanonicalUuid(client.arg)
        /\ client.pc \in {"returned", "done"}) =>
       client.out.err = "none" /\ IsBuffer16(client.out.bytes)
  /\ (client.fn = "uuidRaw" /\ IsCanonicalUuid(client.arg) /\ client.pc = "done") =>
       client.back = client.arg

\* the first UUID of the example was parsed to 16 bytes beginning 0x77 0x17
\* and ending 0xab, and formatted back to itself
C16_Witness ==
  /\ client.pc = "done" /\ client.fn = "uuidRaw"
  /\ client.arg = User1
  /\ Len(client.out.bytes) = UuidBytes
  /\ client.out.bytes[1] = 119 /\ client.out.bytes[2] = 23
  /\ client.out.bytes[UuidBytes] = 171
  /\ client.back = User1

\* a buffer whose seventh byte is 0x0a was formatted with both digits of
\* the byte and parsed back to itself
C16_WitnessBuffer ==
  /\ client.pc = "done" /\ client.fn = "uuidHex"
  /\ client.arg[7] = 10
  /\ client.out = "00000000-0000-0a00-0000-000000000000"
  /\ client.back.bytes = client.arg

\* C17: uuidRaw fails with InvalidUuid exactly when its argument holds no
\* substring of the canonical UUID form, and for every string it accepts,
\* those with characters around the UUID included, it returns 16 bytes.
C17_ParseAcceptsIffContainsUuid ==
  (client.fn = "uuidRaw" /\ client.pc \in {"returned", "done"}) =>
    /\ (client.out.err = "InvalidUuid") <=> ~ContainsCanonicalUuid(client.arg)
    /\ client.out.err = "none" => Len(client.out.bytes) = UuidBytes

\* the part of C17 that holds: InvalidUuid exactly when no substring of the
\* argument has the canonical form
InvalidUuidIffNoMatch ==
  (client.fn = "uuidRaw" /\ client.pc \in {"returned", "done"}) =>
    ((client.out.err = "InvalidUuid") <=> ~ContainsCanonicalUuid(client.arg))

(***************************************************************************)
(* The item codec on 64-bit items.  An item read from a record is a uint64 *)
(* (T_TDB_ITEM); the model holds it as four limbs of 16 bits, the least    *)
(* significant first.  ref hands a uint64 to the program as a Number when  *)
(* it is at most 2^53 and as a decimal String above; the operators & and   *)
(* >> of tdb_item_is_32 and tdb_item_field convert their operand to a      *)
(* Number (the nearest double, ties to even) and then to 32 bits.          *)
(***************************************************************************)
\* the values of a limb
LimbSize == 65536

\* the bits of the mantissa of a double
MantissaBits == 53

RECURSIVE Pow2(_)
Pow2(n) == IF n = 0 THEN 1 ELSE 2 * Pow2(n - 1)

\* the position of the highest set bit of a limb, -1 for limb 0
TopBitOfLimb(l) == IF l = 0 THEN -1 ELSE CHOOSE b \in 0..15 : Pow2(b) <= l /\ l < 2 * Pow2(b)

\* the position of the highest set bit of an item, -1 for item 0
TopBit(item) ==
  IF item[4] # 0 THEN 48 + TopBitOfLimb(item[4])
  ELSE IF item[3] # 0 THEN 32 + TopBitOfLimb(item[3])
  ELSE IF item[2] # 0 THEN 16 + TopBitOfLimb(item[2])
  ELSE TopBitOfLimb(item[1])

\* the item is handed over as a String: it is above 2^53
ReadAsString(item) ==
  \/ TopBit(item) > MantissaBits
  \/ TopBit(item) = MantissaBits
       /\ (item[1] # 0 \/ item[2] # 0 \/ item[3] # 0 \/ item[4] # Pow2(MantissaBits - 48))

\* the low 16 bits of the Number the item converts to.  A String of
\* highest bit h > 52 is rounded to a multiple of 2^k, k = h - 52: the k low
\* bits are dropped and the rest is incremented when they are above the
\* half, or at the half with bit k set.  (k <= 11: all of it is in limb 1.)
ToNumberLow16(item) ==
  IF ~ReadAsString(item) THEN item[1]
  ELSE LET k == TopBit(item) - (MantissaBits - 1)
           dropped == item[1] % Pow2(k)
           kept == item[1] \div Pow2(k)
           half == Pow2(k - 1)
           up == IF dropped > half \/ (dropped = half /\ kept % 2 = 1) THEN 1 ELSE 0
       IN ((kept + up) * Pow2(k)) % LimbSize

\* tdb_item_field(item) for an item read from a record: the masks 127 and
\* 128 and the shift by 8 read bits 0-14 of the converted operand
tdb_item_field_read(item) == tdb_item_field(ToNumberLow16(item))

\* the limbs above the first of the items decoded: items below 2^16, 2^32,
\* 2^48, 2^53 and items from 2^53 to 2^64 - 1
HighLimbs ==
  { <<0, 0, 0>>, <<1, 0, 0>>, <<0, 1, 0>>, <<0, 0, 1>>, <<0, 0, 16>>,
    <<0, 0, 32>>, <<0, 0, 64>>, <<0, 0, 256>>, <<65535, 65535, 65535>> }

\* the first limbs of the items decoded: every value of bits 0-14
LowLimbs == 0..(Pow2(15) - 1)

\* a caller about to decode the field of an item
InitItem ==
  /\ filters = << >>
  /\ seqs = << >>
  /\ orphans = EmptyBag
  /\ trailIts = << >>
  /\ crashed = FALSE
  /\ \E low \in LowLimbs, high \in HighLimbs :
       client = [pc |-> "start", item |-> <<low>> \o high]

\* tdb_item_field(item), as getItemKey calls it
ItemFieldCall ==
  /\ client.pc = "start"
  /\ client' = [pc |-> "returned", item |-> client.item,
                field |-> tdb_item_field_read(client.item)]
  /\ UNCHANGED <<filters, seqs, orphans, trailIts, crashed>>

NextItem == ItemFieldCall

SpecItem == InitItem /\ [][NextItem]_vars

\* bit b (0-15) of the first limb of an item
Bit(item, b) == (item[1] \div Pow2(b)) % 2

\* the value of bits a..b of the first limb of an item
Bits(item, a, b) == (item[1] \div Pow2(a)) % Pow2(b - a + 1)

\* C18: for every 64-bit item, the field index is bits 0-6 when bit 7 is
\* clear and bits 0-6 with bits 8-14 above them when bit 7 is set; it is
\* below 128 for a narrow item and below 16384 for a wide one; no other bit
\* of the item has an effect on it.
C18_FieldIndexOfEveryItem ==
  client.pc = "returned" =>
    /\ Bit(client.item, 7) = 0 =>
         /\ client.field = Bits(client.item, 0, 6)
         /\ client.field < 128
    /\ Bit(client.item, 7) = 1 =>
         /\ client.field = Bits(client.item, 0, 6) + 128 * Bits(client.item, 8, 14)
         /\ client.field >= 0 /\ client.field < 16384

\* for the items that are handed over as a Number the claim of C18 holds
FieldIndexRightUpTo2p53 ==
  (client.pc = "returned" /\ ~ReadAsString(client.item)) => C18_FieldIndexOfEveryItem

(***************************************************************************)
(* Construction of event sequences.                                        *)
(***************************************************************************)
\* the cursors of EventsIterator calls that threw
FailedCursors == {c \in BagToSet(orphans) : c.owner = "events"}

\* a cursor whose constructor threw was never positioned and never advanced
FailedCursorsUntouched ==
  \A c \in FailedCursors :
    /\ c.err \in {"FilterAttachFailed", "TrailOpenFailed"}
    /\ c.trail = -1 /\ c.pos = 1 /\ c.staleReads = 0
    /\ c.err = "FilterAttachFailed" => c.filter = NoFilter

\* the cursor of a sequence that was returned has its filter option
\* attached, if there is one, and is positioned at the sequence's trail
ReturnedCursorsReady ==
  \A s \in SeqIds :
    /\ seqs[s].cursor.err = "none"
    /\ seqs[s].cursor.filter = seqs[s].filter
    /\ seqs[s].cursor.trail = seqs[s].trail
    /\ tdb_get_trail(seqs[s].trail) = 0

\* a call that throws returns no sequence, a call that returns one throws
\* nothing, and the cursor of a call that threw is not used again
ConstructionStep ==
  ~crashed' =>
    /\ Len(seqs') > Len(seqs) =>
         /\ orphans' = orphans
         /\ Len(seqs') = Len(seqs) + 1
         /\ seqs'[Len(seqs')].calls = 0
    /\ orphans' # orphans =>
         /\ seqs' = seqs
         /\ BagCardinality(orphans') = BagCardinality(orphans) + 1
         /\ \A c \in BagToSet(orphans) : CopiesIn(c, orphans') >= CopiesIn(c, orphans)

\* C19: an event sequence is constructed by acquiring a cursor, attaching
\* the filter when one is supplied, then positioning the cursor.  When the
\* attach is rejected the call fails with FilterAttachFailed and the cursor
\* is never positioned; when positioning is rejected it fails with
\* TrailOpenFailed, the filter already attached; in both cases no sequence
\* is returned and the cursor is never advanced.
C19_ConstructionOrder ==
  /\ [](FailedCursorsUntouched /\ ReturnedCursorsReady)
  /\ [][ConstructionStep]_vars

\* one call has failed at the attach and another at positioning, after its
\* filter was attached
C19_Witness ==
  \E c, d \in FailedCursors :
    /\ c.err = "FilterAttachFailed" /\ c.trail = -1
    /\ d.err = "TrailOpenFailed" /\ d.filter # NoFilter /\ d.trail = -1

(***************************************************************************)
(* Failures of the filter compiler.                                        *)
(***************************************************************************)
\* the conditions at which a step of the compilation fails: the field does
\* not pass lines 601-613, or the store rejects the clause or the term
FailingConds(conds, fail) ==
  {i \in 1..Len(conds) :
     \/ ~Resolves(conds[i])
     \/ fail = [kind |-> "term", at |-> i]
     \/ fail = [kind |-> "clause", at |-> i] /\ i > 1 /\ conds[i].and}

FirstFailing(conds, fail) ==
  CHOOSE k \in FailingConds(conds, fail) : \A j \in FailingConds(conds, fail) : k <= j

\* the store calls made for a condition that is processed to its end
OpsOfCond(conds, i) ==
  << [op |-> "tdb_get_field", cond |-> i], [op |-> "tdb_get_item", cond |-> i] >>
  \o (IF i > 1 /\ conds[i].and
      THEN << [op |-> "tdb_event_filter_new_clause", cond |-> i] >> ELSE << >>)
  \o << [op |-> "tdb_event_filter_add_term", cond |-> i] >>

RECURSIVE OpsUpTo(_, _)
OpsUpTo(conds, n) == IF n = 0 THEN << >> ELSE OpsUpTo(conds, n - 1) \o OpsOfCond(conds, n)

\* C20: TrailDBFilter fails exactly when a step fails at some condition,
\* and it stops at the first such condition k: the store calls made are
\* those of the conditions before k and those of k up to the failing one,
\* none for a condition after k; the filter holds the terms of the
\* conditions before k in their clauses and nothing else, but for the empty
\* clause opened for k when it is the term of k that was rejected.
C20_AbortAtFirstFailure ==
  \A f \in FilterIds :
    LET conds == filters[f].conds
        fail == filters[f].fail
        cl == filters[f].clauses
        ops == filters[f].ops
    IN /\ (filters[f].status # "ok") <=> (FailingConds(conds, fail) # {})
       /\ filters[f].status # "ok" =>
            LET k == FirstFailing(conds, fail)
                opened == filters[f].status = "TermAppendFailed" /\ k > 1 /\ conds[k].and
                before == TrailDBFilter(SubSeq(conds, 1, k - 1), NoFail).clauses
                m == Len(OpsUpTo(conds, k - 1))
            IN /\ \A j \in 1..Len(ops) : ops[j].cond <= k
               /\ SubSeq(ops, 1, m) = OpsUpTo(conds, k - 1)
               /\ \A j \in (m + 1)..Len(ops) : ops[j].cond = k
               /\ IsPrefix(SubSeq(ops, m + 1, Len(ops)), OpsOfCond(conds, k))
               /\ ops[Len(ops)].op =
                    (CASE IsUnknownField(filters[f].status) -> "tdb_get_field"
                       [] filters[f].status = "ClauseAppendFailed" -> "tdb_event_filter_new_clause"
                       [] filters[f].status = "TermAppendFailed" -> "tdb_event_filter_add_term")
               /\ Flatten(cl) = [i \in 1..(k - 1) |-> TermOf(conds[i])]
               /\ cl = IF opened THEN Append(before, << >>) ELSE before

\* the store rejected the term of the second of three conditions, for
\* which a clause had been opened: the filter holds the first term and an
\* empty clause, and no call was made for the third condition
C20_Witness ==
  \E f \in FilterIds :
    /\ filters[f].status = "TermAppendFailed"
    /\ Len(filters[f].conds) = 3
    /\ filters[f].fail = [kind |-> "term", at |-> 2]
    /\ filters[f].conds[2].and
    /\ Len(filters[f].clauses) = 2
    /\ Len(filters[f].clauses[1]) = 1 /\ filters[f].clauses[2] = << >>
    /\ \A j \in 1..Len(filters[f].ops) : filters[f].ops[j].cond # 3

(***************************************************************************)
(* Several iterators of one sequence object.  The iterators of trailIts    *)
(* are those of one TrailsIterator object (the object holds the store and  *)
(* the options only); next() on event sequence s is next() on any iterator *)
(* of the EventsIterator object s, which all share its cursor.  The caller *)
(* keeps, for every entity iterator, the indices the object had yielded    *)
(* when the iterator was obtained.                                         *)
(***************************************************************************)
\* the indices the TrailsIterator object has yielded through any iterator
YieldedTrails == UNION {Range(trailIts[t].yielded) : t \in 1..Len(trailIts)}

InitRestart ==
  /\ filters = << >>
  /\ seqs = << >>
  /\ orphans = EmptyBag
  /\ trailIts = << >>
  /\ crashed = FALSE
  /\ client = [pc |-> "iterating", seen |-> << >>]

\* trails[Symbol.iterator]() on the one TrailsIterator object
RsGetIterator ==
  /\ ~crashed
  /\ Len(trailIts) < MaxTrailIts
  /\ TrailsGetIterator
  /\ client' = [client EXCEPT !.seen = Append(@, YieldedTrails)]

\* next() on one of the entity iterators
RsTrailsNext ==
  /\ ~crashed
  /\ \E t \in 1..Len(trailIts) :
       /\ trailIts[t].dones < MaxDones
       /\ TrailsNextStep(t)
  /\ UNCHANGED client

NextRestart ==
  \/ RsGetIterator
  \/ RsTrailsNext
  \/ NewEvents
  \/ EventsNext

SpecRestart == InitRestart /\ [][NextRestart]_vars

\* no event was yielded twice by event sequence object s
NoEventTwice(s) ==
  \A j, k \in 1..Len(seqs[s].yielded) :
    seqs[s].yielded[j].timestamp = seqs[s].yielded[k].timestamp => j = k

\* C21: a sequence object that has yielded an element does not yield it
\* again through an iterator obtained afterwards: an entity iterator yields
\* no index that the TrailsIterator object had yielded when the iterator
\* was obtained, and an EventsIterator object yields no event twice.
C21_NoRedelivery ==
  ~crashed =>
    /\ \A u \in 1..Len(trailIts) :
         Range(trailIts[u].yielded) \cap client.seen[u] = {}
    /\ \A s \in SeqIds : NoEventTwice(s)

\* the event half of C21 for the sequences none of whose native calls used
\* a released cursor
EventsNotRedeliveredWhenClean ==
  ~crashed => \A s \in SeqIds : Clean(s) => NoEventTwice(s)

\* the entity half of C21
TrailsNotRestarted ==
  ~crashed =>
    \A u \in 1..Len(trailIts) : Range(trailIts[u].yielded) \cap client.seen[u] = {}

====
